---------------------------- MODULE Spec2Model ----------------------------
(***************************************************************************)
(* Model of app/services/analyzer.py of yt-video-analyzer: the result      *)
(* cache (_cache_get / _cache_put), the subtitle extraction fallback       *)
(* orchestration of analyze_video, and the text cleaner _clean_vtt.        *)
(*                                                                         *)
(* Conventions.  A Python str is a sequence of one-character strings, so   *)
(* that strip / replace / startswith / regular expressions are computed    *)
(* character by character.  An optional value (str | None) is a sequence   *)
(* of length at most one: <<>> is None, <<s>> is the value s.  A dict is a *)
(* function whose DOMAIN is its key set.  Nested mutable objects (the      *)
(* key_points list and the debug_info dict of a result) live in a heap and *)
(* are held by reference, so that dict(payload), a shallow copy, shares    *)
(* them exactly as the Python objects are shared.                          *)
(***************************************************************************)
EXTENDS Integers, Sequences, FiniteSets, TLC

VARIABLES env, tool, now, cache, heap, dirs, nreq, frame, puts, fx

vars == <<env, tool, now, cache, heap, dirs, nreq, frame, puts, fx>>

(***************************************************************************)
(* Bounds of the model.                                                    *)
(***************************************************************************)
MaxRequests == 2
MaxClock == 2
MaxFrags == 3

Procs == {1, 2}

(***************************************************************************)
(* Strings.                                                                *)
(***************************************************************************)
None == <<>>
Some(v) == <<v>>
OrEmpty(opt) == IF opt = None THEN <<>> ELSE opt[1]

Range(s) == {s[i] : i \in 1..Len(s)}

\* str.strip() and \s: the whitespace characters
Whitespace == {" ", "\t", "\n", "\r", "\f"}
\* str.splitlines(): the line boundaries
LineBreaks == {"\n", "\r", "\f"}
Digits == {"0", "1", "2", "3", "4", "5", "6", "7", "8", "9"}

RECURSIVE LStrip(_)
LStrip(s) == IF s # <<>> /\ s[1] \in Whitespace THEN LStrip(Tail(s)) ELSE s

RECURSIVE RStrip(_)
RStrip(s) == IF s # <<>> /\ s[Len(s)] \in Whitespace THEN RStrip(SubSeq(s, 1, Len(s) - 1)) ELSE s

Strip(s) == RStrip(LStrip(s))

StartsWith(s, prefix) == Len(s) >= Len(prefix) /\ SubSeq(s, 1, Len(prefix)) = prefix

\* str.replace(" ", "")
RemoveSpaces(s) == SelectSeq(s, LAMBDA c : c # " ")

\* the least position from i on of s that holds a character of chars, or 0
FirstIn(s, i, chars) ==
    LET at == {j \in i..Len(s) : s[j] \in chars}
    IN  IF at = {} THEN 0 ELSE CHOOSE j \in at : \A k \in at : j <= k

RECURSIVE SplitLines(_)
\* str.splitlines(): "\r\n" is one boundary, no empty last line after a final boundary
SplitLines(s) ==
    IF s = <<>> THEN <<>>
    ELSE LET j == FirstIn(s, 1, LineBreaks)
         IN  IF j = 0 THEN <<s>>
             ELSE LET e == IF s[j] = "\r" /\ j < Len(s) /\ s[j + 1] = "\n" THEN j + 1 ELSE j
                  IN  <<SubSeq(s, 1, j - 1)>> \o SplitLines(SubSeq(s, e + 1, Len(s)))

RECURSIVE JoinLines(_)
JoinLines(lines) ==
    IF lines = <<>> THEN <<>>
    ELSE IF Len(lines) = 1 THEN lines[1]
    ELSE lines[1] \o <<"\n">> \o JoinLines(Tail(lines))

S_WEBVTT == <<"W", "E", "B", "V", "T", "T">>
S_Kind == <<"K", "i", "n", "d", ":">>
S_Language == <<"L", "a", "n", "g", "u", "a", "g", "e", ":">>
S_Arrow == <<"-", "-", ">">>

(***************************************************************************)
(* _clean_vtt                                                              *)
(***************************************************************************)
\* \d{2}:\d{2}:\d{2}\.\d{3} at position i of s
TimeAt(s, i) ==
    /\ Len(s) >= i + 11
    /\ \A k \in {0, 1, 3, 4, 6, 7, 9, 10, 11} : s[i + k] \in Digits
    /\ s[i + 2] = ":" /\ s[i + 5] = ":" /\ s[i + 8] = "."

RECURSIVE SkipSpace(_, _)
\* the position after the run of whitespace that starts at i
SkipSpace(s, i) == IF i <= Len(s) /\ s[i] \in Whitespace THEN SkipSpace(s, i + 1) ELSE i

\* ts.match(ln): the timing-range pattern matches a prefix of ln
TsMatch(ln) ==
    /\ TimeAt(ln, 1)
    /\ LET a == SkipSpace(ln, 13)
       IN  /\ a > 13
           /\ Len(ln) >= a + 2
           /\ SubSeq(ln, a, a + 2) = S_Arrow
           /\ LET b == SkipSpace(ln, a + 3)
              IN  b > a + 3 /\ TimeAt(ln, b)

\* the least j >= i with s[j] = ">", or 0
FindGt(s, i) == FirstIn(s, i, {">"})

RECURSIVE StripTags(_)
\* re.sub(r"<[^>]+>", "", ln): the leftmost "<" followed by at least one
\* character other than ">" and then ">" is removed up to that ">", and on
StripTags(ln) ==
    LET starts == {i \in 1..Len(ln) : ln[i] = "<" /\ FindGt(ln, i + 1) >= i + 2}
    IN  IF starts = {} THEN ln
        ELSE LET i == CHOOSE a \in starts : \A b \in starts : a <= b
                 j == FindGt(ln, i + 1)
             IN  SubSeq(ln, 1, i - 1) \o StripTags(SubSeq(ln, j + 1, Len(ln)))

RECURSIVE CleanLines(_)
\* the first loop of _clean_vtt
CleanLines(lines) ==
    IF lines = <<>> THEN <<>>
    ELSE LET ln == Strip(lines[1])
             rest == CleanLines(Tail(lines))
         IN  IF ln = <<>> \/ StartsWith(ln, S_WEBVTT) \/ StartsWith(ln, S_Kind) \/ StartsWith(ln, S_Language)
             THEN rest
             ELSE IF TsMatch(ln) THEN rest
             ELSE LET t == StripTags(ln)
                  IN  IF t # <<>> THEN <<t>> \o rest ELSE rest

RECURSIVE Dedupe(_, _)
\* the second loop of _clean_vtt
Dedupe(lines, prev) ==
    IF lines = <<>> THEN <<>>
    ELSE (IF lines[1] # prev THEN <<lines[1]>> ELSE <<>>) \o Dedupe(Tail(lines), lines[1])

_clean_vtt(text) == Strip(JoinLines(Dedupe(CleanLines(SplitLines(text)), <<>>)))


(***************************************************************************)
(* Configuration (os.getenv at the point of use).  A flag is the result of *)
(* the test  value.lower() in {"1", "true", "yes", "on"};  a string        *)
(* setting is optional (None: the variable is unset).                      *)
(***************************************************************************)
S_ru_en == <<"r", "u", ",", "e", "n">>
S_ru_ru_orig == <<"r", "u", ",", "r", "u", "-", "o", "r", "i", "g">>
S_en_en_orig == <<"e", "n", ",", "e", "n", "-", "o", "r", "i", "g">>
S_en_sp_en_orig == <<"e", "n", ",", " ", "e", "n", "-", "o", "r", "i", "g">>

DefaultTtl == 900

Getenv(e, name, default) == IF e[name] = None THEN default ELSE e[name][1]

Max(a, b) == IF a >= b THEN a ELSE b

\* int(raw) of a setting: [valid |-> FALSE] stands for a text int() rejects
_cache_ttl_secOf(e) ==
    LET raw == Getenv(e, "ANALYZE_CACHE_TTL_SEC", [valid |-> TRUE, n |-> DefaultTtl])
    IN  IF raw.valid THEN Max(0, raw.n) ELSE DefaultTtl

_cache_ttl_sec == _cache_ttl_secOf(env)

_normalize_langsOf(e, langs) ==
    LET default_langs == Getenv(e, "YTDLP_SUB_LANGS", S_ru_ru_orig)
    IN  IF langs = None \/ langs[1] = <<>> \/ Strip(langs[1]) = <<>> \/ Strip(langs[1]) = S_ru_en
        THEN default_langs
        ELSE RemoveSpaces(langs[1])

_normalize_langs(langs) == _normalize_langsOf(env, langs)

_fallback_langs == RemoveSpaces(Getenv(env, "YTDLP_SUB_LANGS_FALLBACK", S_en_en_orig))

_runtime_debug_info ==
    [manual_mode |-> env.YTDLP_MANUAL_MODE,
     include_regular_subs |-> env.YTDLP_INCLUDE_REGULAR_SUBS,
     fallback_regular_on_empty |-> env.YTDLP_FALLBACK_REGULAR_ON_EMPTY,
     fallback_langs_on_empty |-> env.YTDLP_FALLBACK_LANGS_ON_EMPTY,
     keep_tmp |-> env.YTDLP_KEEP_TMP,
     sub_langs_default |-> Getenv(env, "YTDLP_SUB_LANGS", S_ru_ru_orig),
     sub_langs_fallback |-> _fallback_langs]

(***************************************************************************)
(* _build_subtitles_cmd.  An argument is Lit(s) for a fixed word or an     *)
(* opaque value (the URL), Chars(cs) for the language list, and            *)
(* CookieFile(d) for the cookies.txt prepared in scratch directory d.      *)
(***************************************************************************)
Lit(s) == [lit |-> s]
Chars(cs) == [chars |-> cs]
CookieFile(d) == [cookies_in |-> d]

InsertAt(s, i, x) == SubSeq(s, 1, i - 1) \o <<x>> \o SubSeq(s, i, Len(s))

\* a faulty variant: manual mode keeps the argument out whatever the override
WantsRegularSubs_ManualWins(include_regular_subs, override, manual_mode) ==
    include_regular_subs /\ ~manual_mode

\* line 72
WantsRegularSubs(include_regular_subs, override, manual_mode) ==
    include_regular_subs /\ (override = Some(TRUE) \/ ~manual_mode)

\* a faulty variant: the path is added without the word --cookies before it
CookieArgs_NoFlag(cookies_arg_path) ==
    IF cookies_arg_path # None /\ cookies_arg_path[1] # Lit("")
    THEN <<cookies_arg_path[1]>>
    ELSE <<>>

\* lines 75-76: nothing for None and for the empty string
CookieArgs(cookies_arg_path) ==
    IF cookies_arg_path # None /\ cookies_arg_path[1] # Lit("")
    THEN <<Lit("--cookies"), cookies_arg_path[1]>>
    ELSE <<>>

\* override: None (unset), Some(TRUE), Some(FALSE); cookies: None or Some(arg)
_build_subtitles_cmd(url, langs, cookies_arg_path, include_regular_subs_override) ==
    LET lang_list == _normalize_langs(Some(langs))
        manual_mode == env.YTDLP_MANUAL_MODE
        include_regular_subs ==
            IF include_regular_subs_override # None
            THEN include_regular_subs_override[1]
            ELSE env.YTDLP_INCLUDE_REGULAR_SUBS
        cmd0 == <<Lit("yt-dlp"), Lit("--write-auto-subs"), Lit("--sub-langs"), Chars(lang_list),
                  Lit("--skip-download"), Lit("--ignore-no-formats-error"),
                  Lit("--js-runtimes"), Lit("node"), Lit("--remote-components"), Lit("ejs:github")>>
        cmd1 == IF env.YTDLP_EXTRACTOR_ARGS # None
                THEN cmd0 \o <<Lit("--extractor-args"), Lit(env.YTDLP_EXTRACTOR_ARGS[1])>>
                ELSE cmd0
        cmd2 == IF WantsRegularSubs(include_regular_subs, include_regular_subs_override, manual_mode)
                THEN InsertAt(cmd1, 3, Lit("--write-subs"))
                ELSE cmd1
        cmd3 == cmd2 \o CookieArgs(cookies_arg_path)
    IN  cmd3 \o <<Lit("-o"), Lit("%(id)s.%(ext)s"), Lit(url)>>

\* _prepare_cookies_path: the copy in the scratch directory, or None
_prepare_cookies_path(workdir) ==
    IF env.YTDLP_COOKIES_PATH THEN Some(CookieFile(workdir)) ELSE None

(***************************************************************************)
(* The result cache.  cache is _ANALYZE_CACHE: a function from the keys    *)
(* present to [ts, payload].  Each operator below is the body of one       *)
(* critical section (with _CACHE_LOCK), taken in one step.                 *)
(***************************************************************************)
\* a faulty variant: the key holds the language list as given, not normalized
CacheKey_RawLangs(url, langs, user_prompt) ==
    <<url, OrEmpty(langs), Strip(OrEmpty(user_prompt))>>

\* lines 250, 267
CacheKey(url, langs, user_prompt) ==
    <<url, _normalize_langs(langs), Strip(OrEmpty(user_prompt))>>

\* dict(payload): a new dict with the same values; nested objects are shared
DictCopy(payload) == [k \in DOMAIN payload |-> payload[k]]

DictSet(d, k, v) == [x \in DOMAIN d \cup {k} |-> IF x = k THEN v ELSE d[x]]

DictDel(d, k) == [x \in DOMAIN d \ {k} |-> d[x]]

\* a faulty variant: an entry exactly as old as the time-to-live counts as expired
IsExpired_AtTtl(t, ts, ttl) == t - ts >= ttl

\* line 257
IsExpired(t, ts, ttl) == t - ts > ttl

\* a faulty variant: an expired entry is left in the store
CacheAfterGet_NoPop(c, key, t, ttl) == c

\* a faulty variant: a get sweeps every expired entry out of the store
CacheAfterGet_Sweeps(c, key, t, ttl) ==
    IF ttl <= 0 THEN c
    ELSE [k \in {x \in DOMAIN c : ~IsExpired(t, c[x].ts, ttl)} |-> c[k]]

\* the store after _cache_get(key) read the clock at t
CacheAfterGet(c, key, t, ttl) ==
    IF ttl <= 0 THEN c
    ELSE IF key \notin DOMAIN c THEN c
    ELSE IF IsExpired(t, c[key].ts, ttl) THEN DictDel(c, key)
    ELSE c

\* what _cache_get(key) returns: None or Some(copy of the payload)
CacheGetResult(c, key, t, ttl) ==
    IF ttl <= 0 THEN None
    ELSE IF key \notin DOMAIN c THEN None
    ELSE IF IsExpired(t, c[key].ts, ttl) THEN None
    ELSE Some(DictCopy(c[key].payload))

\* a faulty variant: the entry is stored whatever the time-to-live
CacheAfterPut_NoTtlCheck(c, key, payload, t, ttl) ==
    DictSet(c, key, [ts |-> t, payload |-> DictCopy(payload)])

\* a faulty variant: a put does not replace the entry the key already has
CacheAfterPut_FirstWins(c, key, payload, t, ttl) ==
    IF ttl <= 0 \/ key \in DOMAIN c THEN c
    ELSE DictSet(c, key, [ts |-> t, payload |-> DictCopy(payload)])

\* the store after _cache_put(key, payload) at clock t
CacheAfterPut(c, key, payload, t, ttl) ==
    IF ttl <= 0 THEN c
    ELSE DictSet(c, key, [ts |-> t, payload |-> DictCopy(payload)])

(***************************************************************************)
(* The heap of nested objects: heap[r] is the list or dict with reference  *)
(* r.  A payload holds its key_points and debug_info by reference.  The    *)
(* n-th call allocates its list at reference 2n-1 and its dict at 2n.      *)
(***************************************************************************)
KpRef(n) == 2 * n - 1
DiRef(n) == 2 * n

NestedKeys == {"key_points", "debug_info"}

\* the payload with every nested object replaced by its current value
Deep(payload, h) ==
    [k \in DOMAIN payload |-> IF k \in NestedKeys THEN h[payload[k]] ELSE payload[k]]

\* the references a payload holds
RefsOf(payload) == {payload[k] : k \in NestedKeys \cap DOMAIN payload}

\* the objects still referenced by the store, by a call's result under
\* construction or by a result a caller holds: the others are garbage
Live(h, c, fr) ==
    LET used == UNION ({RefsOf(c[key].payload) : key \in DOMAIN c}
                       \cup {RefsOf(fr[p].out[1]) : p \in {q \in DOMAIN fr : fr[q].out # None}}
                       \cup {RefsOf(fr[p].ret[1]) : p \in {q \in DOMAIN fr : fr[q].ret # None}})
    IN  [r \in DOMAIN h \cap used |-> h[r]]

(***************************************************************************)
(* The inputs of the model: requests, and what the extraction tool and the *)
(* summarization service answer.                                           *)
(***************************************************************************)
RawA == <<"W", "E", "B", "V", "T", "T", "\n", "\n", "0", "0", ":", "0", "0", ":", "0", "0", ".", "0", "0", "0", " ", "-", "-", ">", " ", "0", "0", ":", "0", "0", ":", "0", "1", ".", "0", "0", "0", "\n", "H", "e", "l", "l", "o", "\n", "\n", "H", "e", "l", "l", "o", "\n">>

\* (url, langs, user_prompt): the first and the third have the same identity
Requests ==
    {[url |-> "https://youtu.be/abc", langs |-> Some(S_ru_en), user_prompt |-> None],
     [url |-> "https://youtu.be/abc", langs |-> Some(S_en_sp_en_orig), user_prompt |-> None],
     [url |-> "https://youtu.be/abc", langs |-> None, user_prompt |-> Some(<<" ">>)]}

\* the phrase with the typographic apostrophe U+2019, and with the ASCII one
S_BotCurly == "Sign in to confirm you{U+2019}re not a bot"
S_BotAscii == "Sign in to confirm you're not a bot"

\* str(e) of the RuntimeError of _run, as the pieces it is made of
ErrorMessages ==
    {<<"Command failed: ", "ERROR: ", S_BotCurly>>,
     <<"Command failed: ", "ERROR: ", S_BotAscii>>,
     <<"Command failed: ", "ERROR: ", "Video unavailable">>}

Contains(msg, phrase) == phrase \in Range(msg)

StderrOf(k) == <<CASE k = 1 -> "stderr1" [] k = 2 -> "stderr2" [] k = 3 -> "stderr3" [] OTHER -> "stderr4">>

\* what one run of the tool does: it fails, or it leaves no file, an empty
\* file or a file with text; only the first run may write nothing to stderr
AllExtractOutcomes(k) ==
    {[raised |-> TRUE, msg |-> m, text |-> None, stderr |-> <<>>] : m \in (IF k = 1 THEN ErrorMessages ELSE {<<"Command failed: ">>})}
    \cup {[raised |-> FALSE, msg |-> <<>>, text |-> t, stderr |-> e] :
            t \in {None, Some(<<>>), Some(RawA)},
            e \in (IF k = 1 THEN {<<>>, StderrOf(1)} ELSE {StderrOf(k)})}

\* the three fixed summaries (Russian sentences in the source), lines 277, 369, 445
\* the outcomes the tool can show at the k-th attempt in this world
ExtractOutcomes(k) == tool.extract[k]

S_Placeholder == "summary: OPENROUTER_API_KEY is not set, transcript only"
S_Failed == "summary: could not get the subtitles from YouTube"
S_NoSubs == "summary: no subtitles found, Whisper fallback not implemented"

\* what the summarization call does: it raises; or its content parses to a
\* JSON object (with or without the two fields), does not parse, or parses
\* to a JSON value that is no object
LlmOutcomes ==
    {[raised |-> TRUE, isdict |-> FALSE, d |-> <<>>],
     [raised |-> FALSE, isdict |-> TRUE, d |-> [summary |-> "a summary", key_points |-> <<"point">>]],
     [raised |-> FALSE, isdict |-> TRUE, d |-> [answer |-> "no fields"]],
     [raised |-> FALSE, isdict |-> TRUE, d |-> [summary |-> "not json", key_points |-> <<>>]],
     [raised |-> FALSE, isdict |-> FALSE, d |-> <<>>]}

\* _summarize_with_llm: the possible outcomes under the configuration
_summarize_with_llm ==
    IF ~env.OPENROUTER_API_KEY
    THEN {[raised |-> FALSE, isdict |-> TRUE, d |-> [summary |-> S_Placeholder, key_points |-> <<>>]]}
    ELSE tool.llm

\* {**a, **b}
DictMerge(a, b) == [k \in DOMAIN a \cup DOMAIN b |-> IF k \in DOMAIN b THEN b[k] ELSE a[k]]

\* dict.get(k, default)
DictGet(d, k, default) == IF k \in DOMAIN d THEN d[k] ELSE default

(***************************************************************************)
(* _extract_subtitles: what it returns for one outcome of the tool.        *)
(***************************************************************************)
_extract_subtitles(url, langs, workdir, include_regular_subs_override, run_list_subs_debug, o) ==
    LET cookies_arg_path == _prepare_cookies_path(workdir)
        cmd == _build_subtitles_cmd(url, langs, cookies_arg_path, include_regular_subs_override)
        scan == [subtitle_file_found |-> o.text # None,
                 subtitle_preview |-> OrEmpty(o.text),
                 stderr_len |-> Len(o.stderr)]
        file_debug == IF run_list_subs_debug
                      THEN DictSet(scan, "list_subs_langs", _normalize_langs(Some(langs)))
                      ELSE scan
    IN  [raw_subs |-> o.text, stderr |-> o.stderr, cmd |-> cmd, file_debug |-> file_debug]

(***************************************************************************)
(* One call of analyze_video per process at a time.  frame[p] holds the    *)
(* call's arguments, its position pc, its locals, the value it returned    *)
(* (ret, kept by the caller), the history of its extraction attempts and   *)
(* what its summarization call did (llm).                                  *)
(***************************************************************************)
IdleFrame ==
    [pc |-> "idle", n |-> 0, url |-> "", langs |-> None, user_prompt |-> None, t |-> 0, td |-> 0,
     raw_subs |-> None, stderr |-> <<>>, used_cmd |-> None, file_debug |-> None,
     out |-> None, ret |-> None, attempts |-> <<>>, llm |-> None]

\* not raw_subs
Falsy(raw_subs) == raw_subs = None \/ raw_subs[1] = <<>>

primary_langs(f) == _normalize_langs(f.langs)

\* the identity of a request, as the data model defines it (bookkeeping of
\* the puts made, kept apart from the key the code computes)
IdentityOf(f) == <<f.url, _normalize_langs(f.langs), Strip(OrEmpty(f.user_prompt))>>

KeyOf(f) == CacheKey(f.url, f.langs, f.user_prompt)

debug_mode == env.YTDLP_DEBUG
keep_tmp == env.YTDLP_KEEP_TMP

\* line 384
Stage2Enabled(f) == Falsy(f.raw_subs) /\ _runtime_debug_info.fallback_regular_on_empty

\* a faulty variant: the fallback list is tried even when it is the primary list
Stage3Enabled_SameList(f) ==
    /\ Falsy(f.raw_subs)
    /\ _runtime_debug_info.fallback_langs_on_empty
    /\ _fallback_langs # <<>>

\* line 402
Stage3Enabled(f) ==
    /\ Falsy(f.raw_subs)
    /\ _runtime_debug_info.fallback_langs_on_empty
    /\ _fallback_langs # <<>>
    /\ _fallback_langs # primary_langs(f)

\* line 420
Stage4Enabled(f) ==
    /\ Falsy(f.raw_subs)
    /\ _runtime_debug_info.fallback_regular_on_empty
    /\ _runtime_debug_info.fallback_langs_on_empty
    /\ _fallback_langs # <<>>
    /\ _fallback_langs # primary_langs(f)

\* the arguments of the k-th call of _extract_subtitles: langs and override
AttemptLangs(f, k) == IF k <= 2 THEN primary_langs(f) ELSE _fallback_langs
AttemptOverride(k) == CASE k = 1 -> None [] k = 2 -> Some(TRUE) [] k = 3 -> Some(FALSE) [] OTHER -> Some(TRUE)

\* where control goes after the k-th attempt: the next if that holds
NextPc(f, k) ==
    IF k < 2 /\ Stage2Enabled(f) THEN "attempt2"
    ELSE IF k < 3 /\ Stage3Enabled(f) THEN "attempt3"
    ELSE IF k < 4 /\ Stage4Enabled(f) THEN "attempt4"
    ELSE IF Falsy(f.raw_subs) THEN "put"
    ELSE "summarize"

\* the debug_info dict of a result
DebugInfo(f, cmd) ==
    LET own == [yt_dlp_command |-> cmd, tmp_dir |-> f.td, tmp_kept |-> keep_tmp]
    IN  DictMerge(DictMerge(_runtime_debug_info, own), OrEmpty(f.file_debug))

\* a faulty variant: only the typographic apostrophe is recognised
ErrorStatus_CurlyOnly(msg) ==
    IF Contains(msg, S_BotCurly) THEN "blocked_by_youtube" ELSE "extract_error"

\* lines 360-362
ErrorStatus(msg) ==
    IF Contains(msg, S_BotCurly) \/ Contains(msg, S_BotAscii)
    THEN "blocked_by_youtube" ELSE "extract_error"

\* lines 366-380: the result of a failed first attempt, and the heap with
\* its nested objects
ErrorResult(f, msg, h) ==
    LET status == ErrorStatus(msg)
        out == [url |-> f.url, status |-> status, summary |-> S_Failed,
                key_points |-> KpRef(f.n), transcript |-> <<>>]
        cmd_preview == _build_subtitles_cmd(f.url, primary_langs(f), None, None)
        h1 == DictSet(h, KpRef(f.n), <<>>)
    IN  IF debug_mode
        THEN [out |-> DictSet(DictSet(out, "debug_info", DiRef(f.n)), "debug", msg),
              heap |-> DictSet(h1, DiRef(f.n), DebugInfo([f EXCEPT !.file_debug = None], cmd_preview))]
        ELSE [out |-> out, heap |-> h1]

\* lines 442-459 and 466-483: a result built after the attempts
BuiltResult(f, status, summary, key_points, transcript, h) ==
    LET out == [url |-> f.url, status |-> status, summary |-> summary,
                key_points |-> KpRef(f.n), transcript |-> transcript]
        withinfo == DictSet(out, "debug_info", DiRef(f.n))
        h1 == DictSet(h, KpRef(f.n), key_points)
        withdebug == IF f.stderr # <<>>
                     THEN DictSet(DictSet(withinfo, "debug", f.stderr), "stderr_full", f.stderr)
                     ELSE withinfo
    IN  IF debug_mode
        THEN [out |-> withdebug, heap |-> DictSet(h1, DiRef(f.n), DebugInfo(f, f.used_cmd[1]))]
        ELSE [out |-> out, heap |-> h1]

\* a faulty variant: the no_subtitles result is returned without being stored
AfterAttempts_SkipsPut(f, k, h) ==
    LET pc == NextPc(f, k)
    IN  IF pc = "put"
        THEN LET b == BuiltResult(f, "no_subtitles", S_NoSubs, <<>>, <<>>, h)
             IN  [frame |-> [f EXCEPT !.pc = "finally", !.out = Some(b.out)], heap |-> b.heap]
        ELSE [frame |-> [f EXCEPT !.pc = pc], heap |-> h]

\* lines 441-461, entered when no attempt is left
AfterAttempts(f, k, h) ==
    LET pc == NextPc(f, k)
    IN  IF pc = "put"
        THEN LET b == BuiltResult(f, "no_subtitles", S_NoSubs, <<>>, <<>>, h)
             IN  [frame |-> [f EXCEPT !.pc = pc, !.out = Some(b.out)], heap |-> b.heap]
        ELSE [frame |-> [f EXCEPT !.pc = pc], heap |-> h]

\* lines 332-338: the annotations of a cache hit
HitResult(cached, n, h) ==
    LET hit == DictSet(cached, "cache_hit", TRUE)
    IN  IF ~debug_mode THEN [ret |-> hit, heap |-> h]
        ELSE IF "debug_info" \in DOMAIN hit
        THEN [ret |-> hit,
              heap |-> [h EXCEPT ![hit.debug_info] = DictSet(@, "cache_ttl_sec", _cache_ttl_sec)]]
        ELSE [ret |-> DictSet(hit, "debug_info", DiRef(n)),
              heap |-> DictSet(h, DiRef(n), [cache_ttl_sec |-> _cache_ttl_sec])]

(***************************************************************************)
(* The steps of analyze_video.                                             *)
(***************************************************************************)
\* the frame once the call is over: it returned ret, or raised (None); the
\* locals are gone, the arguments and the history are kept for reference
Returned(f, ret) ==
    [IdleFrame EXCEPT !.pc = IF ret = None THEN "raised" ELSE "done", !.n = f.n, !.url = f.url,
                      !.langs = f.langs, !.user_prompt = f.user_prompt, !.td = f.td,
                      !.ret = ret, !.attempts = f.attempts, !.llm = f.llm]

\* lines 326-331 and 250-251: the call, up to _cache_get reading the clock
\* (with the cache disabled the clock is not read, and t is not used)
Call(p) ==
    /\ frame[p].pc \in {"idle", "done", "raised"}
    /\ nreq < MaxRequests
    /\ \E r \in Requests :
          frame' = [frame EXCEPT ![p] =
                      [IdleFrame EXCEPT !.n = nreq + 1, !.url = r.url, !.langs = r.langs,
                                        !.user_prompt = r.user_prompt, !.t = now,
                                        !.pc = "cache_lookup"]]
    /\ nreq' = nreq + 1
    /\ heap' = Live(heap, cache, frame')
    /\ UNCHANGED <<env, tool, now, cache, dirs, puts, fx>>

\* lines 247-249, 252-260 (one critical section) and 332-338
CacheLookup(p) ==
    /\ frame[p].pc = "cache_lookup"
    /\ LET f == frame[p]
           got == CacheGetResult(cache, KeyOf(f), f.t, _cache_ttl_sec)
       IN  /\ cache' = CacheAfterGet(cache, KeyOf(f), f.t, _cache_ttl_sec)
           /\ IF got = None
              THEN /\ frame' = [frame EXCEPT ![p].pc = "mkdtemp"]
                   /\ heap' = Live(heap, cache', frame')
              ELSE LET hit == HitResult(got[1], f.n, heap)
                   IN  /\ frame' = [frame EXCEPT ![p] = Returned(f, Some(hit.ret))]
                       /\ heap' = hit.heap
    /\ UNCHANGED <<env, tool, now, dirs, nreq, puts, fx>>

\* line 340: tempfile.mkdtemp makes a directory no other call has: the n-th call's is n
Mkdtemp(p) ==
    /\ frame[p].pc = "mkdtemp"
    /\ dirs' = dirs \cup {frame[p].n}
    /\ frame' = [frame EXCEPT ![p].pc = "attempt1", ![p].td = frame[p].n]
    /\ UNCHANGED <<env, tool, now, cache, heap, nreq, puts, fx>>

\* the history of a call: which state was attempted and what the tool did
Attempted(k, o) == [state |-> k, raised |-> o.raised, msg |-> o.msg, text |-> ~o.raised /\ ~Falsy(o.text)]

\* lines 351-382: the first attempt
Attempt1(p) ==
    /\ frame[p].pc = "attempt1"
    /\ \E o \in ExtractOutcomes(1) :
          LET f == [frame[p] EXCEPT !.attempts = Append(@, Attempted(1, o))]
          IN  IF o.raised
              THEN LET e == ErrorResult(f, o.msg, heap)
                   IN  /\ frame' = [frame EXCEPT ![p] = [f EXCEPT !.pc = "put", !.out = Some(e.out)]]
                       /\ heap' = e.heap
              ELSE LET r == _extract_subtitles(f.url, primary_langs(f), f.td, None, debug_mode, o)
                       g == [f EXCEPT !.raw_subs = r.raw_subs, !.stderr = r.stderr,
                                      !.used_cmd = Some(r.cmd), !.file_debug = Some(r.file_debug)]
                       a == AfterAttempts(g, 1, heap)
                   IN  /\ frame' = [frame EXCEPT ![p] = a.frame]
                       /\ heap' = a.heap
    /\ UNCHANGED <<env, tool, now, cache, dirs, nreq, puts, fx>>

\* a faulty variant: a raised failure of a fallback attempt is not caught
FallbackAttempt_Propagates(p, k) ==
    \E o \in ExtractOutcomes(k) :
       LET f == [frame[p] EXCEPT !.attempts = Append(@, Attempted(k, o))]
           r == _extract_subtitles(f.url, AttemptLangs(f, k), f.td, AttemptOverride(k), debug_mode, o)
           g == [f EXCEPT !.raw_subs = r.raw_subs,
                          !.file_debug = IF ~Falsy(r.raw_subs) THEN Some(r.file_debug) ELSE @,
                          !.stderr = @ \o <<"\n">> \o r.stderr,
                          !.used_cmd = Some(r.cmd)]
           a == AfterAttempts(g, k, heap)
       IN  IF o.raised
           THEN /\ frame' = [frame EXCEPT ![p] = [f EXCEPT !.pc = "finally"]]
                /\ heap' = heap
           ELSE /\ frame' = [frame EXCEPT ![p] = a.frame]
                /\ heap' = a.heap

\* lines 385-400, 403-418, 421-436: a fallback attempt; a raised failure is
\* caught and leaves the locals as they were
FallbackAttempt(p, k) ==
    \E o \in ExtractOutcomes(k) :
       LET f == [frame[p] EXCEPT !.attempts = Append(@, Attempted(k, o))]
           r == _extract_subtitles(f.url, AttemptLangs(f, k), f.td, AttemptOverride(k), debug_mode, o)
           g == IF o.raised THEN f
                ELSE [f EXCEPT !.raw_subs = r.raw_subs,
                               !.file_debug = IF ~Falsy(r.raw_subs) THEN Some(r.file_debug) ELSE @,
                               !.stderr = @ \o <<"\n">> \o r.stderr,
                               !.used_cmd = Some(r.cmd)]
           a == AfterAttempts(g, k, heap)
       IN  /\ frame' = [frame EXCEPT ![p] = a.frame]
           /\ heap' = a.heap

Attempt2(p) ==
    /\ frame[p].pc = "attempt2"
    /\ FallbackAttempt(p, 2)
    /\ UNCHANGED <<env, tool, now, cache, dirs, nreq, puts, fx>>

Attempt3(p) ==
    /\ frame[p].pc = "attempt3"
    /\ FallbackAttempt(p, 3)
    /\ UNCHANGED <<env, tool, now, cache, dirs, nreq, puts, fx>>

Attempt4(p) ==
    /\ frame[p].pc = "attempt4"
    /\ FallbackAttempt(p, 4)
    /\ UNCHANGED <<env, tool, now, cache, dirs, nreq, puts, fx>>

\* lines 463-483: cleaning, the summarization call, the ok result; an
\* exception (of the call, or of llm.get on a reply that is no dict)
\* leaves no result
Summarize(p) ==
    /\ frame[p].pc = "summarize"
    /\ \E llm \in _summarize_with_llm :
          LET f == [frame[p] EXCEPT !.llm = Some([raised |-> llm.raised, isdict |-> llm.isdict])]
              transcript == _clean_vtt(f.raw_subs[1])
          IN  IF llm.raised \/ ~llm.isdict
              THEN /\ frame' = [frame EXCEPT ![p] = [f EXCEPT !.pc = "finally"]]
                   /\ heap' = heap
              ELSE LET b == BuiltResult(f, "ok", DictGet(llm.d, "summary", ""),
                                        DictGet(llm.d, "key_points", <<>>), transcript, heap)
                   IN  /\ frame' = [frame EXCEPT ![p] = [f EXCEPT !.pc = "put", !.out = Some(b.out)]]
                       /\ heap' = b.heap
    /\ UNCHANGED <<env, tool, now, cache, dirs, nreq, puts, fx>>

\* lines 263-269 (called at 381, 460, 484): one critical section
CachePut(p) ==
    /\ frame[p].pc = "put"
    /\ cache' = CacheAfterPut(cache, KeyOf(frame[p]), frame[p].out[1], now, _cache_ttl_sec)
    /\ frame' = [frame EXCEPT ![p].pc = "finally"]
    /\ heap' = Live(heap, cache', frame')
    /\ puts' = IF _cache_ttl_sec <= 0 THEN puts
               ELSE DictSet(puts, IdentityOf(frame[p]),
                            [ts |-> now, by |-> frame[p].n, payload |-> frame[p].out[1],
                             deep |-> Deep(frame[p].out[1], heap)])
    /\ UNCHANGED <<env, tool, now, dirs, nreq, fx>>

\* a faulty variant: every scratch directory is removed, not only the call's own
DirsAfterFinally_RemovesAll(ds, td) == IF keep_tmp THEN ds ELSE {}

\* the scratch directories after the finally clause of a call with directory td
DirsAfterFinally(ds, td) == IF keep_tmp THEN ds ELSE ds \ {td}

\* lines 486-490, then the return or the propagating exception
Finally(p) ==
    /\ frame[p].pc = "finally"
    /\ dirs' = DirsAfterFinally(dirs, frame[p].td)
    /\ frame' = [frame EXCEPT ![p] = Returned(frame[p], frame[p].out)]
    /\ UNCHANGED <<env, tool, now, cache, heap, nreq, puts, fx>>

(***************************************************************************)
(* The environment: time passes, and a caller changes, in place, a nested  *)
(* object of the result it was given.                                      *)
(***************************************************************************)
Tick ==
    /\ now < MaxClock
    /\ now' = now + 1
    /\ UNCHANGED <<env, tool, cache, heap, dirs, nreq, frame, puts, fx>>

CallerMutates(p) ==
    /\ frame[p].pc = "done"
    /\ \E k \in NestedKeys \cap DOMAIN frame[p].ret[1] :
          LET r == frame[p].ret[1][k]
          IN  IF k = "key_points"
              THEN /\ "edited by the caller" \notin Range(heap[r])
                   /\ heap' = [heap EXCEPT ![r] = Append(@, "edited by the caller")]
              ELSE /\ "edited" \notin DOMAIN heap[r]
                   /\ heap' = [heap EXCEPT ![r] = DictSet(@, "edited", TRUE)]
    /\ UNCHANGED <<env, tool, now, cache, dirs, nreq, frame, puts, fx>>

(***************************************************************************)
(* Specifications.                                                         *)
(***************************************************************************)
EnvDefault ==
    [YTDLP_DEBUG |-> FALSE, YTDLP_KEEP_TMP |-> FALSE, YTDLP_MANUAL_MODE |-> TRUE,
     YTDLP_INCLUDE_REGULAR_SUBS |-> FALSE, YTDLP_FALLBACK_REGULAR_ON_EMPTY |-> TRUE,
     YTDLP_FALLBACK_LANGS_ON_EMPTY |-> TRUE, YTDLP_SUB_LANGS |-> None,
     YTDLP_SUB_LANGS_FALLBACK |-> None, YTDLP_EXTRACTOR_ARGS |-> None,
     YTDLP_COOKIES_PATH |-> FALSE, ANALYZE_CACHE_TTL_SEC |-> None,
     OPENROUTER_API_KEY |-> FALSE]

TtlSetting(n) == Some([valid |-> TRUE, n |-> n])

\* the configurations of Spec: the cache on and off, debug mode on and off
Envs ==
    {[EnvDefault EXCEPT !.YTDLP_DEBUG = d, !.ANALYZE_CACHE_TTL_SEC = t, !.OPENROUTER_API_KEY = TRUE] :
        d \in BOOLEAN, t \in {TtlSetting(-1), TtlSetting(0), TtlSetting(1), None}}

\* worlds: what the tool may do at each of the four attempts
AnyWorld == [extract |-> [k \in 1..4 |-> AllExtractOutcomes(k)], llm |-> LlmOutcomes]

Only(raised, text) == {[raised |-> raised, msg |-> IF raised THEN <<"Command failed: ">> ELSE <<>>,
                        text |-> text, stderr |-> IF raised THEN <<>> ELSE <<"stderr">>]}

Worlds ==
    {[extract |-> x, llm |-> {o \in LlmOutcomes : o.raised \/ "summary" \in DOMAIN o.d}] : x \in
      {[k \in 1..4 |-> Only(FALSE, Some(RawA))],
       [k \in 1..4 |-> Only(FALSE, None)],
       [k \in 1..4 |-> IF k = 1 THEN {o \in AllExtractOutcomes(1) : o.raised} ELSE Only(TRUE, None)],
       [k \in 1..4 |-> CASE k = 1 -> Only(FALSE, None) [] k = 2 -> Only(TRUE, None)
                         [] k = 3 -> Only(FALSE, Some(<<>>)) [] OTHER -> Only(FALSE, Some(RawA))]}}

\* made: the calls already made and over (their results expired or never stored)
InitWith(envs, worlds, procs, made) ==
    /\ env \in envs
    /\ tool \in worlds
    /\ now = 0
    /\ cache = <<>>
    /\ heap = <<>>
    /\ dirs = {}
    /\ nreq = made
    /\ frame = [p \in Procs |-> IF p \in procs THEN IdleFrame ELSE [IdleFrame EXCEPT !.pc = "off"]]
    /\ puts = <<>>
    /\ fx = <<>>

Init == InitWith(Envs, Worlds, {1}, 0)

Next ==
    \/ \E p \in Procs : Call(p)
    \/ \E p \in Procs : CacheLookup(p)
    \/ \E p \in Procs : Mkdtemp(p)
    \/ \E p \in Procs : Attempt1(p)
    \/ \E p \in Procs : Attempt2(p)
    \/ \E p \in Procs : Attempt3(p)
    \/ \E p \in Procs : Attempt4(p)
    \/ \E p \in Procs : Summarize(p)
    \/ \E p \in Procs : CachePut(p)
    \/ \E p \in Procs : Finally(p)
    \/ \E p \in Procs : CallerMutates(p)
    \/ Tick

Spec == Init /\ [][Next]_vars

\* SpecOrch: the last call the bound allows, every configuration of the fallbacks, and a tool
\* that may do anything at every attempt
EnvsOrch ==
    {[EnvDefault EXCEPT !.YTDLP_DEBUG = d, !.ANALYZE_CACHE_TTL_SEC = t, !.OPENROUTER_API_KEY = a,
                        !.YTDLP_FALLBACK_REGULAR_ON_EMPTY = r, !.YTDLP_FALLBACK_LANGS_ON_EMPTY = l,
                        !.YTDLP_SUB_LANGS_FALLBACK = fl] :
        d \in BOOLEAN, t \in {TtlSetting(0), None}, a \in BOOLEAN, r \in BOOLEAN, l \in BOOLEAN,
        fl \in {None, Some(<<>>)}}

InitOrch ==
    /\ InitWith(EnvsOrch, {AnyWorld}, {1}, MaxRequests - 1)

SpecOrch == InitOrch /\ [][Next]_vars

\* SpecConc: two execution contexts and the last two calls the bound allows,
\* made one after the other or at the same time; the cache
\* on with its default time-to-live, a cookie file configured, the scratch
\* directories kept or not; a tool that fails, finds nothing or finds text.
EnvsConc ==
    {[EnvDefault EXCEPT !.YTDLP_KEEP_TMP = k, !.YTDLP_COOKIES_PATH = TRUE, !.OPENROUTER_API_KEY = TRUE] :
        k \in BOOLEAN}

WorldsConc ==
    {[extract |-> [k \in 1..4 |-> CASE k = 1 -> Only(TRUE, None) \cup Only(FALSE, None)
                                    [] k = 2 -> Only(TRUE, None)
                                    [] k = 3 -> Only(FALSE, Some(<<>>))
                                    [] OTHER -> Only(FALSE, Some(RawA))],
      llm |-> {o \in LlmOutcomes : o.raised \/ "summary" \in DOMAIN o.d}]}

InitConc ==
    /\ InitWith(EnvsConc, WorldsConc, {1, 2}, MaxRequests - 2)

SpecConc == InitConc /\ [][Next]_vars

\* SpecClean: _clean_vtt alone, applied to a text and then to its own output.
\* The texts are made of up to MaxFrags pieces of subtitle files.
S_Tag == <<"<", "c", ">">>
S_Cue == <<"0", "0", ":", "0", "0", ":", "0", "1", ".", "0", "0", "0", " ", "-", "-", ">", " ",
           "0", "0", ":", "0", "0", ":", "0", "2", ".", "0", "0", "0">>

\* a caption line that starts with a styling tag and a space, as in "<c> word</c>"
S_TagLine == <<"<", "c", ">", " ", "a">>

Fragments == {S_Tag, <<" ">>, <<"\n">>, <<"a">>, <<"b">>, S_WEBVTT, S_Kind, S_Cue, S_TagLine}

RECURSIVE Flatten(_)
Flatten(pieces) == IF pieces = <<>> THEN <<>> ELSE pieces[1] \o Flatten(Tail(pieces))

Texts == {Flatten(pieces) : pieces \in UNION {[1..n -> Fragments] : n \in 0..MaxFrags}}

InitClean ==
    /\ env = EnvDefault
    /\ tool = AnyWorld
    /\ now = 0
    /\ cache = <<>>
    /\ heap = <<>>
    /\ dirs = {}
    /\ nreq = 0
    /\ frame = [p \in Procs |-> [IdleFrame EXCEPT !.pc = "off"]]
    /\ puts = <<>>
    /\ \E text \in Texts : fx = <<[text |-> text, passes |-> <<>>]>>

\* one more pass of the cleaner: over the text, then over the output of the pass before
Clean ==
    /\ fx # <<>>
    /\ Len(fx[1].passes) < 2
    /\ LET arg == IF fx[1].passes = <<>> THEN fx[1].text ELSE fx[1].passes[Len(fx[1].passes)]
       IN  fx' = <<[fx[1] EXCEPT !.passes = Append(@, _clean_vtt(arg))]>>
    /\ UNCHANGED <<env, tool, now, cache, heap, dirs, nreq, frame, puts>>

NextClean == Clean

SpecClean == InitClean /\ [][NextClean]_vars

\* SpecCmd: _normalize_langs and _build_subtitles_cmd alone, applied to the
\* arguments a caller may pass under the configurations that matter to them.
S_sp_ru_en_sp == <<" ", "r", "u", ",", "e", "n", " ">>
S_ru_sp_en == <<"r", "u", ",", " ", "e", "n">>
S_en_tab_en_orig == <<"e", "n", ",", "\t", "e", "n", "-", "o", "r", "i", "g">>

LangInputs ==
    {None, Some(<<>>), Some(<<" ">>), Some(<<"\t">>), Some(S_ru_en), Some(S_sp_ru_en_sp),
     Some(S_ru_sp_en), Some(S_en_en_orig), Some(S_en_sp_en_orig), Some(S_en_tab_en_orig)}

CookieInputs == {None, Some(Lit("")), Some(Lit("/tmp/cookies.txt")), Some(CookieFile(1))}

EnvsCmd ==
    {[EnvDefault EXCEPT !.YTDLP_MANUAL_MODE = m, !.YTDLP_INCLUDE_REGULAR_SUBS = r,
                        !.YTDLP_SUB_LANGS = d, !.YTDLP_EXTRACTOR_ARGS = x] :
        m \in BOOLEAN, r \in BOOLEAN, d \in {None, Some(S_en_en_orig), Some(S_en_sp_en_orig)},
        x \in {None, Some("youtube:player_client=web")}}

InitCmd ==
    /\ env \in EnvsCmd
    /\ tool = AnyWorld
    /\ now = 0
    /\ cache = <<>>
    /\ heap = <<>>
    /\ dirs = {}
    /\ nreq = 0
    /\ frame = [p \in Procs |-> [IdleFrame EXCEPT !.pc = "off"]]
    /\ puts = <<>>
    /\ \E langs \in LangInputs, cookies \in CookieInputs, override \in {None, Some(TRUE), Some(FALSE)} :
          fx = <<[langs |-> langs, cookies |-> cookies, override |-> override,
                  normalized |-> <<>>, cmd |-> None]>>

\* _normalize_langs over the argument, then over its own result
Normalize ==
    /\ fx # <<>>
    /\ Len(fx[1].normalized) < 2
    /\ LET arg == IF fx[1].normalized = <<>> THEN fx[1].langs ELSE Some(fx[1].normalized[Len(fx[1].normalized)])
       IN  fx' = <<[fx[1] EXCEPT !.normalized = Append(@, _normalize_langs(arg))]>>
    /\ UNCHANGED <<env, tool, now, cache, heap, dirs, nreq, frame, puts>>

\* _build_subtitles_cmd(url, langs, cookies_arg_path, include_regular_subs_override)
BuildCmd ==
    /\ fx # <<>>
    /\ fx[1].langs # None
    /\ fx[1].cmd = None
    /\ fx' = <<[fx[1] EXCEPT !.cmd = Some(_build_subtitles_cmd("https://youtu.be/abc", fx[1].langs[1],
                                                                fx[1].cookies, fx[1].override))]>>
    /\ UNCHANGED <<env, tool, now, cache, heap, dirs, nreq, frame, puts>>

NextCmd == Normalize \/ BuildCmd

SpecCmd == InitCmd /\ [][NextCmd]_vars

(***************************************************************************)
(* Claims about the fallback orchestration (checked under SpecOrch).       *)
(***************************************************************************)
\* the calls that missed the cache and are past their last attempt
PastAttempts(p) ==
    \/ frame[p].pc \in {"summarize", "put", "finally", "raised"}
    \/ frame[p].pc = "done" /\ "cache_hit" \notin DOMAIN frame[p].ret[1]

\* the result a call that missed the cache is about to return or has returned
ResultOf(p) == IF frame[p].pc = "done" THEN frame[p].ret[1] ELSE frame[p].out[1]

HasResult(p) ==
    \/ frame[p].pc \in {"put", "finally"} /\ frame[p].out # None
    \/ frame[p].pc = "done" /\ "cache_hit" \notin DOMAIN frame[p].ret[1]

\* the enabling configuration of fallback state k, as the claim gives it
FallbackRegularOn == env.YTDLP_FALLBACK_REGULAR_ON_EMPTY
FallbackLangsOn(f) ==
    /\ env.YTDLP_FALLBACK_LANGS_ON_EMPTY
    /\ _fallback_langs # <<>>
    /\ _fallback_langs # _normalize_langs(f.langs)

Configured(f, k) ==
    CASE k = 1 -> TRUE
      [] k = 2 -> FallbackRegularOn
      [] k = 3 -> FallbackLangsOn(f)
      [] OTHER -> FallbackRegularOn /\ FallbackLangsOn(f)

\* C1: on a cache miss the attempts are made in the order 1, 2, 3, 4; the
\* first is always made; attempt k > 1 is made only if no earlier attempt
\* yielded text and its fallback is configured; once the call is past its
\* attempts, every configured state before the first that yielded text was
\* attempted (unless the first attempt raised); so 1 to 4 attempts are made.
C1_AttemptOrder ==
    \A p \in Procs :
       LET f == frame[p]
           a == f.attempts
       IN  /\ \A i \in 1..Len(a) :
                 /\ a[i].state \in 1..4
                 /\ i = 1 => a[i].state = 1
                 /\ i > 1 => /\ a[i - 1].state < a[i].state
                             /\ \A j \in 1..(i - 1) : ~a[j].text
                             /\ Configured(f, a[i].state)
           /\ PastAttempts(p) =>
                 /\ Len(a) \in 1..4
                 /\ ~a[1].raised =>
                       \A k \in 2..4 :
                          (Configured(f, k) /\ \A j \in 1..Len(a) : a[j].state < k => ~a[j].text)
                             => \E i \in 1..Len(a) : a[i].state = k

\* C1 witness: a call made all four attempts, the last of which yielded text
C1_Witness ==
    \E p \in Procs :
       /\ PastAttempts(p)
       /\ Len(frame[p].attempts) = 4
       /\ frame[p].attempts[4].text

IsError(status) == status \in {"extract_error", "blocked_by_youtube"}

\* C2: a raised failure of the first attempt ends the call with an error
\* result and no further attempt; a raised failure of attempt 2, 3 or 4
\* never makes the call raise, counts as no text, and the next configured
\* state is still attempted.
C2_OnlyFirstFailureFatal ==
    \A p \in Procs :
       LET f == frame[p]
           a == f.attempts
       IN  /\ (Len(a) >= 1 /\ a[1].raised) =>
                 /\ Len(a) = 1
                 /\ HasResult(p)
                 /\ IsError(ResultOf(p).status)
           /\ \A i \in 2..Len(a) : a[i].raised =>
                 /\ f.pc # "raised" \/ \E j \in 1..Len(a) : a[j].text
                 /\ ~a[i].text
                 /\ (PastAttempts(p) /\ \A j \in 1..Len(a) : ~a[j].text) =>
                       /\ HasResult(p)
                       /\ ResultOf(p).status = "no_subtitles"
                       /\ \A k \in (a[i].state + 1)..4 :
                             Configured(f, k) => \E j \in 1..Len(a) : a[j].state = k

\* C2 witness: the second attempt raised and the third was made after it
C2_Witness ==
    \E p \in Procs :
       /\ Len(frame[p].attempts) >= 3
       /\ frame[p].attempts[2].raised
       /\ frame[p].attempts[3].state = 3

BotPhrase(msg) == Contains(msg, S_BotCurly) \/ Contains(msg, S_BotAscii)

\* C3: a result computed on a cache miss has one of the four statuses: ok
\* iff some attempt yielded text; no_subtitles iff the first attempt did
\* not raise and no attempt yielded text; blocked_by_youtube iff the first
\* attempt raised with the bot-detection phrase; extract_error iff it
\* raised with another message.  A result that is not ok has an empty
\* transcript and no key points.
C3_StatusDetermined ==
    \A p \in Procs : HasResult(p) =>
       LET a == frame[p].attempts
           r == ResultOf(p)
           sometext == \E i \in 1..Len(a) : a[i].text
       IN  /\ r.status \in {"ok", "no_subtitles", "extract_error", "blocked_by_youtube"}
           /\ r.status = "ok" <=> sometext
           /\ r.status = "no_subtitles" <=> (~a[1].raised /\ ~sometext)
           /\ r.status = "blocked_by_youtube" <=> (a[1].raised /\ BotPhrase(a[1].msg))
           /\ r.status = "extract_error" <=> (a[1].raised /\ ~BotPhrase(a[1].msg))
           /\ (r.status # "ok" /\ frame[p].pc # "done") =>
                 r.transcript = <<>> /\ heap[r.key_points] = <<>>

\* C3 witness: a blocked_by_youtube result is being returned
C3_Witness ==
    \E p \in Procs :
       /\ frame[p].pc = "finally"
       /\ frame[p].out # None
       /\ frame[p].out[1].status = "blocked_by_youtube"

(***************************************************************************)
(* Claims about the result cache (checked under Spec).                     *)
(***************************************************************************)
Ttl == _cache_ttl_sec

\* process p takes its _cache_get step
Looks(p) == frame[p].pc = "cache_lookup" /\ frame'[p].pc # "cache_lookup"

\* the last put for the identity of p's request was made, with a positive
\* time-to-live, no longer than the time-to-live before p read the clock
FreshPut(p) ==
    /\ Ttl > 0
    /\ IdentityOf(frame[p]) \in DOMAIN puts
    /\ frame[p].t - puts[IdentityOf(frame[p])].ts <= Ttl

IsHit(p) == frame[p].pc = "done" /\ "cache_hit" \in DOMAIN frame[p].ret[1]

\* no caller has changed a nested object of the result p holds
NoCallerEdit(p) ==
    LET r == frame[p].ret[1]
    IN  /\ "edited by the caller" \notin Range(heap[r.key_points])
        /\ "debug_info" \in DOMAIN r => "edited" \notin DOMAIN heap[r.debug_info]

C5_LazyExpiry ==
    [][/\ \A p \in Procs : (Looks(p) /\ Ttl > 0 /\ IdentityOf(frame[p]) \in DOMAIN cache) =>
             LET id == IdentityOf(frame[p])
             IN  IF frame[p].t - cache[id].ts > Ttl
                 THEN /\ frame'[p].pc = "mkdtemp"
                      /\ frame'[p].ret = None
                      /\ id \notin DOMAIN cache'
                 ELSE /\ id \in DOMAIN cache'
                      /\ cache'[id] = cache[id]
       /\ \A id \in DOMAIN cache' \ DOMAIN cache :
             \E p \in Procs : /\ frame[p].pc = "put"
                              /\ frame'[p].pc = "finally"
                              /\ IdentityOf(frame[p]) = id]_vars

\* C5 witness: an entry that was put has been removed by a get that found
\* it expired
C5_Witness ==
    \E p \in Procs :
       /\ frame[p].pc = "mkdtemp"
       /\ Ttl > 0
       /\ IdentityOf(frame[p]) \in DOMAIN puts
       /\ IdentityOf(frame[p]) \notin DOMAIN cache
       /\ frame[p].t - puts[IdentityOf(frame[p])].ts > Ttl

\* C6: with a zero or negative time-to-live nothing is ever stored and no
\* call is answered from the cache; a get would return nothing even from a
\* store that held a fresh entry for its identity.
C6_DisabledCache ==
    Ttl <= 0 =>
       /\ DOMAIN cache = {}
       /\ \A p \in Procs :
             /\ ~IsHit(p)
             /\ frame[p].out # None =>
                   LET id == IdentityOf(frame[p])
                       held == DictSet(cache, id, [ts |-> now, payload |-> frame[p].out[1]])
                   IN  CacheGetResult(held, id, now, Ttl) = None

\* C6 witness: with a negative setting, a second call has found nothing
\* although the first one, which ended with no_subtitles, made its put
C6_Witness ==
    \E p \in Procs :
       /\ env.ANALYZE_CACHE_TTL_SEC = TtlSetting(-1)
       /\ tool.extract[1] = Only(FALSE, None)
       /\ frame[p].n = 2
       /\ frame[p].pc = "mkdtemp"

\* C7 as stated: the payload held in the cache, nested values included, is
\* at all times the payload as it was when it was put.
C7_CachedByValue ==
    \A id \in DOMAIN cache : id \in DOMAIN puts =>
       Deep(cache[id].payload, heap) = puts[id].deep

\* C8: with a positive time-to-live, a call that goes on to return a
\* computed result has, in that step, stored it under its identity; a call
\* on which summarization raised changes nothing in the store.
C8_ResultsStored ==
    [][\A p \in Procs :
          /\ (Ttl > 0 /\ frame[p].pc # "finally" /\ frame'[p].pc = "finally" /\ frame'[p].out # None) =>
                LET id == IdentityOf(frame[p])
                IN  /\ id \in DOMAIN cache'
                    /\ cache'[id].payload = frame'[p].out[1]
                    /\ cache'[id].ts = now
                    /\ Deep(cache'[id].payload, heap') = Deep(frame'[p].out[1], heap')
          /\ (frame[p].pc # frame'[p].pc /\ frame'[p].pc \in {"finally", "raised"} /\ frame'[p].out = None
                /\ frame'[p].ret = None) =>
                cache' = cache]_vars

\* C8 witness: a no_subtitles result is in the store while its call returns
C8_Witness ==
    \E p \in Procs :
       /\ Ttl > 0
       /\ frame[p].pc = "finally"
       /\ frame[p].out # None
       /\ frame[p].out[1].status = "no_subtitles"
       /\ IdentityOf(frame[p]) \in DOMAIN cache

\* C9: a call whose identity had a result stored no longer than the
\* time-to-live ago is answered from the store, with the status stored and
\* the cache-hit marker, without an extraction attempt, a summarization
\* call or a scratch directory.
C9_SecondRequestHits ==
    [][\A p \in Procs : (Looks(p) /\ FreshPut(p)) =>
          /\ frame'[p].pc = "done"
          /\ frame'[p].ret # None
          /\ "cache_hit" \in DOMAIN frame'[p].ret[1]
          /\ frame'[p].ret[1].status = puts[IdentityOf(frame[p])].payload.status
          /\ frame'[p].ret[1].url = frame[p].url
          /\ frame'[p].attempts = <<>>
          /\ frame'[p].td = 0
          /\ dirs' = dirs]_vars

\* C9 witness: a second call got the stored blocked_by_youtube result
C9_Witness ==
    \E p \in Procs :
       /\ IsHit(p)
       /\ frame[p].n = 2
       /\ frame[p].ret[1].status = "blocked_by_youtube"
       /\ frame[p].attempts = <<>>

(***************************************************************************)
(* Claims about the cleaner (checked under SpecClean).                     *)
(***************************************************************************)
\* C10 as stated: cleaning is idempotent, a second pass over the output of
\* the first returns that output unchanged.
C10_CleanIdempotent ==
    \A i \in DOMAIN fx : Len(fx[i].passes) = 2 => fx[i].passes[2] = fx[i].passes[1]

\* the lines of the output of the first pass over text number i
OutLines(i) == SplitLines(fx[i].passes[1])

\* C11 as stated: no line of the cleaned output begins with a header
\* marker, matches the timing pattern, holds an angle-bracket tag, or is
\* empty or whitespace-only.
C11_CleanOutputClean ==
    \A i \in DOMAIN fx : Len(fx[i].passes) >= 1 =>
       \A k \in 1..Len(OutLines(i)) :
          LET ln == OutLines(i)[k]
          IN  /\ ~StartsWith(ln, S_WEBVTT)
              /\ ~StartsWith(ln, S_Kind)
              /\ ~StartsWith(ln, S_Language)
              /\ ~TsMatch(ln)
              /\ StripTags(ln) = ln
              /\ Strip(ln) # <<>>

\* C12 as stated: in the cleaned output no line equals the line before it.
C12_NoAdjacentDuplicates ==
    \A i \in DOMAIN fx : Len(fx[i].passes) >= 1 =>
       \A k \in 2..Len(OutLines(i)) : OutLines(i)[k] # OutLines(i)[k - 1]

(***************************************************************************)
(* Claims about normalization and the command (checked under SpecCmd).     *)
(***************************************************************************)
S_default_chain == S_ru_ru_orig \o <<",">> \o S_en_en_orig

\* text number i has been normalized
Normalized(i) == Len(fx[i].normalized) >= 1

\* C13 as stated: an empty, whitespace-only or sentinel input gives the
\* configured default list, every other input comes back with all its
\* whitespace removed and nothing else changed.
C13_Normalization ==
    \A i \in DOMAIN fx : Normalized(i) =>
       LET l == fx[i].langs
           out == fx[i].normalized[1]
       IN  IF l = None \/ Strip(l[1]) = <<>> \/ Strip(l[1]) = S_ru_en
           THEN out = Getenv(env, "YTDLP_SUB_LANGS", S_ru_ru_orig)
           ELSE out = SelectSeq(l[1], LAMBDA c : c \notin Whitespace)

\* C14 as stated: with no default list configured, the sentinel "ru,en"
\* normalizes to the chain "ru,ru-orig,en,en-orig".
C14_BuiltInDefaultChain ==
    \A i \in DOMAIN fx :
       (Normalized(i) /\ env.YTDLP_SUB_LANGS = None /\ fx[i].langs = Some(S_ru_en)) =>
          fx[i].normalized[1] = S_default_chain

\* the command of input number i holds the regular-subtitles argument
HasWriteSubs(i) == Lit("--write-subs") \in Range(fx[i].cmd[1])

\* C15 as stated: with manual mode on the command never holds --write-subs;
\* with manual mode off and the toggle on it does.
C15_ManualSuppresses ==
    \A i \in DOMAIN fx : fx[i].cmd # None =>
       /\ env.YTDLP_MANUAL_MODE => ~HasWriteSubs(i)
       /\ (~env.YTDLP_MANUAL_MODE /\ env.YTDLP_INCLUDE_REGULAR_SUBS) => HasWriteSubs(i)

\* C15 amended: called without an override, the command holds --write-subs
\* exactly when the toggle is on and manual mode is off; called with the
\* override true it holds it whatever manual mode and the toggle are, and
\* with the override false it never does.  When present the argument is
\* the third word of the command and occurs once.
C15_RegularSubsArgument ==
    \A i \in DOMAIN fx : fx[i].cmd # None =>
       LET c == fx[i].cmd[1]
       IN  /\ fx[i].override = None =>
                 (HasWriteSubs(i) <=> (env.YTDLP_INCLUDE_REGULAR_SUBS /\ ~env.YTDLP_MANUAL_MODE))
           /\ fx[i].override = Some(TRUE) => HasWriteSubs(i)
           /\ fx[i].override = Some(FALSE) => ~HasWriteSubs(i)
           /\ HasWriteSubs(i) => {k \in 1..Len(c) : c[k] = Lit("--write-subs")} = {3}

\* C15 witness: manual mode on and the override true, the argument is there
C15_Witness ==
    \E i \in DOMAIN fx :
       /\ fx[i].cmd # None
       /\ env.YTDLP_MANUAL_MODE
       /\ ~env.YTDLP_INCLUDE_REGULAR_SUBS
       /\ fx[i].override = Some(TRUE)
       /\ HasWriteSubs(i)

\* C16: without a cookie path (None or the empty string) the command holds
\* no --cookies; with one it holds --cookies once, followed at once by that
\* path; either way it holds --skip-download and ends with -o, the output
\* template and the URL.
C16_CookiesArgument ==
    \A i \in DOMAIN fx : fx[i].cmd # None =>
       LET c == fx[i].cmd[1]
           n == Len(c)
           at == {k \in 1..n : c[k] = Lit("--cookies")}
           supplied == fx[i].cookies # None /\ fx[i].cookies[1] # Lit("")
       IN  /\ ~supplied => at = {}
           /\ supplied => /\ Cardinality(at) = 1
                           /\ \A k \in at : k < n /\ c[k + 1] = fx[i].cookies[1]
           /\ Lit("--skip-download") \in Range(c)
           /\ n >= 3
           /\ SubSeq(c, n - 2, n) = <<Lit("-o"), Lit("%(id)s.%(ext)s"), Lit("https://youtu.be/abc")>>

\* C16 witness: a command built with the cookie file prepared in the
\* scratch directory, under a configuration that adds extractor arguments
C16_Witness ==
    \E i \in DOMAIN fx :
       /\ fx[i].cmd # None
       /\ fx[i].cookies = Some(CookieFile(1))
       /\ env.YTDLP_EXTRACTOR_ARGS # None
       /\ Lit("--cookies") \in Range(fx[i].cmd[1])

(***************************************************************************)
(* Claims about concurrent calls (checked under SpecConc).                 *)
(***************************************************************************)
\* the call of p is between its mkdtemp and its finally clause
InFlight(p) ==
    frame[p].pc \in {"attempt1", "attempt2", "attempt3", "attempt4", "summarize", "put", "finally"}

Over(p) == frame[p].pc \in {"done", "raised"}

\* C17: a call that missed the cache has a scratch directory of its own
\* from mkdtemp to its finally clause, which no other call removes and
\* whose cookie copy is the only one its commands name; once the call is
\* over, by a returned result or by an exception, the directory is there
\* exactly when the retention flag is set; a call answered from the cache
\* has none.
C17_ScratchDirs ==
    \A p \in Procs :
       LET f == frame[p]
       IN  /\ InFlight(p) =>
                 /\ f.td = f.n
                 /\ f.td \in dirs
                 /\ \A q \in Procs \ {p} : frame[q].td # f.td
                 /\ f.used_cmd # None =>
                       \A d \in 0..MaxRequests :
                          CookieFile(d) \in Range(f.used_cmd[1]) => d = f.td
           /\ Over(p) =>
                 /\ (f.td = 0) <=> (f.pc = "done" /\ "cache_hit" \in DOMAIN f.ret[1])
                 /\ f.td # 0 => (f.td \in dirs <=> keep_tmp)

\* C17 witness: one call is over by an exception and its directory is
\* gone, while the directory of the other, still at work, is there
C17_Witness ==
    \E p, q \in Procs :
       /\ ~keep_tmp
       /\ frame[p].pc = "raised"
       /\ frame[p].td \notin dirs
       /\ InFlight(q)
       /\ frame[q].n < frame[p].n
       /\ frame[q].used_cmd # None
       /\ frame[q].td \in dirs

\* p returned a result it computed itself
Computed(fr, p) == fr[p].pc = "done" /\ "cache_hit" \notin DOMAIN fr[p].ret[1]

\* two calls with one identity both missed the cache and both returned a
\* result: the store holds, for the identity, the result of the one of
\* them that put last
LastPutHeld(fr, c, ps) ==
    \A p, q \in Procs :
       (p # q /\ Computed(fr, p) /\ Computed(fr, q) /\ IdentityOf(fr[p]) = IdentityOf(fr[q])) =>
          LET id == IdentityOf(fr[p])
          IN  /\ id \in DOMAIN c
              /\ ps[id].by \in {fr[p].n, fr[q].n}
              /\ \A r \in {p, q} : fr[r].n = ps[id].by => c[id].payload = fr[r].ret[1]

\* C18: the store changes only in the one step of a get or a put, each
\* inside its own critical section, never in a step of extraction or
\* summarization; a put replaces the entry of its identity; and when two
\* calls with the same identity have both missed, both computed and both
\* put, the store holds one entry for the identity, with the payload of
\* the put that happened last.
C18_LastWriterWins ==
    [][/\ cache' # cache =>
             \E p \in Procs :
                \/ /\ frame[p].pc = "put" /\ frame'[p].pc = "finally"
                   /\ DOMAIN cache' = DOMAIN cache \cup {IdentityOf(frame[p])}
                   /\ cache'[IdentityOf(frame[p])] = [ts |-> now, payload |-> frame[p].out[1]]
                   /\ \A id \in DOMAIN cache \ {IdentityOf(frame[p])} : cache'[id] = cache[id]
                \/ /\ frame[p].pc = "cache_lookup" /\ frame'[p].pc = "mkdtemp"
                   /\ DOMAIN cache' = DOMAIN cache \ {IdentityOf(frame[p])}
       /\ LastPutHeld(frame', cache', puts')]_vars

\* C18 witness: two calls with one identity both missed, both made the four
\* attempts and the summarization call, and the one that was called first
\* put last
C18_Witness ==
    \E p, q \in Procs :
       /\ p # q
       /\ Computed(frame, p) /\ Computed(frame, q)
       /\ IdentityOf(frame[p]) = IdentityOf(frame[q])
       /\ frame[p].ret[1].status = "ok" /\ frame[q].ret[1].status = "ok"
       /\ Len(frame[p].attempts) = 4 /\ Len(frame[q].attempts) = 4
       /\ frame[p].n < frame[q].n
       /\ puts[IdentityOf(frame[p])].by = frame[p].n
       /\ cache[IdentityOf(frame[p])].payload = frame[p].ret[1]
       /\ cache[IdentityOf(frame[p])].payload # frame[q].ret[1]

(***************************************************************************)
(* Claims about what a call reports and how it ends (checked under         *)
(* SpecOrch).                                                              *)
(***************************************************************************)
\* the state whose command and evidence the result of frame f should
\* report: of the last attempt that gave text, or else of the last one made
ReportedState(f) ==
    LET n == Len(f.attempts)
        gave == {i \in 1..n : f.attempts[i].text}
        i == IF gave = {} THEN n ELSE CHOOSE a \in gave : \A b \in gave : b <= a
    IN  f.attempts[i].state

\* C19 as stated: after several attempts, the command and the file-scan
\* evidence in the debug information are those of the last attempt that
\* gave text, or of the last attempt made if none did.
C19_DebugOfLastAttempt ==
    \A p \in Procs :
       (HasResult(p) /\ debug_mode /\ Len(frame[p].attempts) >= 2) =>
          LET f == frame[p]
              k == ReportedState(f)
              info == heap[ResultOf(p).debug_info]
          IN  /\ info.yt_dlp_command =
                    _build_subtitles_cmd(f.url, AttemptLangs(f, k), _prepare_cookies_path(f.td),
                                         AttemptOverride(k))
              /\ info.list_subs_langs = _normalize_langs(Some(AttemptLangs(f, k)))

\* C20 as stated: a call that missed the cache ends by raising only when
\* its summarization service call failed; in every other case, a reply
\* that is not a JSON object included, it returns a result with a status.
C20_OnlyServiceFailureRaises ==
    \A p \in Procs :
       /\ frame[p].pc = "raised" => (frame[p].llm # None /\ frame[p].llm[1].raised)
       /\ frame[p].pc = "done" => "status" \in DOMAIN frame[p].ret[1]

(***************************************************************************)
(* Normalization applied twice (checked under SpecCmd).                    *)
(***************************************************************************)
\* C21 as stated: normalizing a list that is already normalized, as the
\* command builder does with the list the orchestrator hands it, never
\* changes it, so the list in the command is the list of the cache key.
C21_NormalizeIdempotent ==
    \A i \in DOMAIN fx : Len(fx[i].normalized) = 2 =>
       /\ fx[i].normalized[2] = fx[i].normalized[1]
       /\ Chars(fx[i].normalized[1]) \in
             Range(_build_subtitles_cmd("https://youtu.be/abc", fx[i].normalized[1], None, None))

(***************************************************************************)
(* The frame of the store's operations (checked under Spec).               *)
(***************************************************************************)
\* process p takes its _cache_put step
Puts(p) == frame[p].pc = "put" /\ frame'[p].pc = "finally"

\* C22: in every step, an entry of the store either is replaced by a put
\* for its own identity, or is removed by a get for its own identity that
\* finds it older than the time-to-live, or stays exactly as it is, expired
\* or not, nested objects included when the step is a get or a put for
\* another identity; and the only identity a step can add to the store is
\* the one being put.
C22_OnlyOwnIdentity ==
    [][/\ \A id \in DOMAIN cache :
             IF \E p \in Procs : Puts(p) /\ Ttl > 0 /\ IdentityOf(frame[p]) = id
             THEN /\ id \in DOMAIN cache'
                  /\ \E p \in Procs : /\ Puts(p)
                                       /\ IdentityOf(frame[p]) = id
                                       /\ cache'[id] = [ts |-> now, payload |-> frame[p].out[1]]
             ELSE IF \E p \in Procs : /\ Looks(p)
                                       /\ Ttl > 0
                                       /\ IdentityOf(frame[p]) = id
                                       /\ frame[p].t - cache[id].ts > Ttl
             THEN id \notin DOMAIN cache'
             ELSE /\ id \in DOMAIN cache'
                  /\ cache'[id] = cache[id]
                  /\ (\E p \in Procs : (Looks(p) \/ Puts(p)) /\ IdentityOf(frame[p]) # id) =>
                        Deep(cache'[id].payload, heap') = Deep(cache[id].payload, heap)
       /\ \A id \in DOMAIN cache' \ DOMAIN cache :
             \E p \in Procs : Puts(p) /\ Ttl > 0 /\ IdentityOf(frame[p]) = id]_vars

\* C22 witness: the store holds an entry that is older than the
\* time-to-live, put by the first call, and beside it the entry of another
\* identity whose call looked the store up and put after the first entry
\* had expired
C22_Witness ==
    \E a, b \in DOMAIN cache :
       /\ a # b
       /\ Ttl > 0
       /\ a \in DOMAIN puts /\ b \in DOMAIN puts
       /\ puts[a].by = 1 /\ puts[b].by = 2
       /\ cache[a] = [ts |-> puts[a].ts, payload |-> puts[a].payload]
       /\ puts[b].ts - cache[a].ts > Ttl
       /\ \E p \in Procs : /\ frame[p].n = 2
                            /\ IdentityOf(frame[p]) = b
                            /\ frame[p].t - cache[a].ts > Ttl

============================================================================
